---- MODULE Spec2Model ----
(***************************************************************************)
(* Model of termion's src/cursor.rs: the cursor-position query             *)
(* (DetectCursorPos::cursor_pos), its four-state reply parser and the      *)
(* lenient "row;column" field parsing, and the Display implementations of  *)
(* Goto, Left, Right, Up and Down.                                         *)
(*                                                                         *)
(* Bytes are their numeric values (0..255); strings are sequences of       *)
(* bytes.  One call of cursor_pos is one behaviour: the reply stream the   *)
(* terminal will deliver, with the read that fails if one does, is fixed   *)
(* in Init; the failures of the handle and of the sink and the error       *)
(* values are chosen when they occur.                                      *)
(***************************************************************************)
EXTENDS Integers, Sequences, FiniteSets, TLC

VARIABLES pc, held, sink, stdin, consumed, s, arg, result, exit, raised,
          cmd, origin, out, fpc

(* The movement command in hand, how it was made, its rendered text and   *)
(* the position of its rendering.                                         *)
fmtVars == <<cmd, origin, out, fpc>>

(* The state of one call of cursor_pos.                                   *)
posVars == <<pc, held, sink, stdin, consumed, s, arg, result, exit, raised>>

vars == <<pc, held, sink, stdin, consumed, s, arg, result, exit, raised,
          cmd, origin, out, fpc>>

(* ------------------------------ bytes --------------------------------- *)
BEL == 7
ESC == 27
SP == 32
SEMI == 59
LBRACKET == 91
RBRACKET == 93
CH_0 == 48
CH_9 == 57
CH_6 == 54
CH_A == 65
CH_B == 66
CH_C == 67
CH_D == 68
CH_H == 72
CH_J == 74
CH_R == 82
CH_Z == 90
CH_a == 97
CH_n == 110
CH_z == 122

(* Marker put in the sink's log by a completed flush (not a byte). *)
FLUSH == 256

(* Item of the source at which the read fails (not a byte). *)
READ_ERR == 257

(* Item of the source at which the read blocks: the terminal sends        *)
(* nothing more and the stream is not closed (not a byte).                *)
PENDING == 258

(* ------------------------------ bounds -------------------------------- *)
(* Longest run of arbitrary bytes put in front of a scripted reply.       *)
MaxPrefix == 2

(* The same, for the streams on which termination is checked.             *)
MaxLivePrefix == 1

(* --------------------------- pure functions --------------------------- *)
U16_MAX == 65535

IsDigit(b) == b >= CH_0 /\ b <= CH_9

IsLetter(b) == (b >= CH_A /\ b <= CH_Z) \/ (b >= CH_a /\ b <= CH_z)

(* Variant: the value wraps around at 2^16.                               *)
RECURSIVE ParseFromWrapping(_, _, _)
ParseFromWrapping(str, i, acc) ==
    IF i > Len(str) THEN acc
    ELSE IF ~IsDigit(str[i]) THEN -1
    ELSE ParseFromWrapping(str, i + 1, (acc * 10 + (str[i] - CH_0)) % (U16_MAX + 1))

(* u16::from_str on a string of the accumulator: None (-1) on the empty   *)
(* string, on a non-digit and on overflow of the checked multiply/add.    *)
RECURSIVE ParseFrom(_, _, _)
ParseFrom(str, i, acc) ==
    IF i > Len(str) THEN acc
    ELSE IF ~IsDigit(str[i]) THEN -1
    ELSE LET next == acc * 10 + (str[i] - CH_0)
         IN  IF next > U16_MAX THEN -1 ELSE ParseFrom(str, i + 1, next)

ParseU16(str) == IF Len(str) = 0 THEN -1 ELSE ParseFrom(str, 1, 0)

(* Variant: the ANSI default parameter 1 instead of 0.                    *)
UnwrapOr1(v) == IF v < 0 THEN 1 ELSE v

(* Option::unwrap_or(0) / Result::unwrap_or(0) on the parse result.       *)
UnwrapOr0(v) == IF v < 0 THEN 0 ELSE v

(* str::split(';'): the fields between the separators, at least one.      *)
RECURSIVE SplitFrom(_, _, _)
SplitFrom(str, i, cur) ==
    IF i > Len(str) THEN <<cur>>
    ELSE IF str[i] = SEMI THEN <<cur>> \o SplitFrom(str, i + 1, <<>>)
    ELSE SplitFrom(str, i + 1, Append(cur, str[i]))

Split(str) == SplitFrom(str, 1, <<>>)

(* parts.next().unwrap_or(""), n-th call.                                 *)
NextPart(parts, n) == IF n <= Len(parts) THEN parts[n] ELSE <<>>

(* Variant: the fields taken in wire order.                               *)
ParsePosWireOrder(a) ==
    LET parts == Split(a)
        y == UnwrapOr0(ParseU16(NextPart(parts, 1)))
        x == UnwrapOr0(ParseU16(NextPart(parts, 2)))
    IN  [x |-> y, y |-> x]

(* The pair returned on 'R': x from the second field, y from the first.   *)
ParsePos(a) ==
    LET parts == Split(a)
        y == UnwrapOr0(ParseU16(NextPart(parts, 1)))
        x == UnwrapOr0(ParseU16(NextPart(parts, 2)))
    IN  [x |-> x, y |-> y]

(* Decimal rendering of an unsigned number ("{}" of a u16).               *)
RECURSIVE Dec(_)
Dec(n) == IF n < 10 THEN <<CH_0 + n>> ELSE Append(Dec(n \div 10), CH_0 + (n % 10))

(* ------------------------------ values -------------------------------- *)
Query == <<ESC, LBRACKET, CH_6, CH_n>>

NoResult == [tag |-> "none", x |-> 0, y |-> 0, kind |-> "", msg |-> ""]

Ok(x, y) == [tag |-> "ok", x |-> x, y |-> y, kind |-> "", msg |-> ""]

Err(e) == [tag |-> "err", x |-> 0, y |-> 0, kind |-> e.kind, msg |-> e.msg]

NotFound == [kind |-> "Other", msg |-> "Cursor position not found"]

NoError == [kind |-> "", msg |-> ""]

(* io::Error values of the operating system, as the handle ("/dev/tty")   *)
(* and the reads on it produce them.                                      *)
OsErrors ==
    { [kind |-> "BrokenPipe", msg |-> "broken pipe"],
      [kind |-> "Other", msg |-> "device failure"] }

(* io::Error values of the sink: cursor_pos is implemented for every      *)
(* W: Write, whose write and flush may return any io::Error, one built    *)
(* with Error::new(ErrorKind::Other, ..) included.                        *)
SinkErrors == OsErrors \cup {[kind |-> "Other", msg |-> "Cursor position not found"]}

(* ------------------------- the parser's steps ------------------------- *)
(* One byte in one state: the next state, the accumulator, and whether    *)
(* the call returns a position on this byte.                              *)
Stay(st, a) == [s |-> st, arg |-> a, ret |-> FALSE]

NormStep(b, a) == IF b = ESC THEN Stay("Esc", a) ELSE Stay("Norm", a)

(* Variant: the accumulator is not cleared on ESC '['.                    *)
EscStepNoClear(b, a) ==
    IF b = LBRACKET THEN Stay("Csi", a)
    ELSE IF b = RBRACKET THEN Stay("Osc", a)
    ELSE Stay("Norm", a)

EscStep(b, a) ==
    IF b = LBRACKET THEN Stay("Csi", <<>>)
    ELSE IF b = RBRACKET THEN Stay("Osc", a)
    ELSE Stay("Norm", a)

(* Variant: an 'R' on an empty accumulator does not end the call.         *)
CsiStepSkipsEmpty(b, a) ==
    IF b = CH_R /\ a # <<>> THEN [s |-> "Csi", arg |-> a, ret |-> TRUE]
    ELSE IF IsLetter(b) THEN Stay("Norm", a)
    ELSE IF IsDigit(b) \/ b = SEMI THEN Stay("Csi", Append(a, b))
    ELSE Stay("Csi", a)

(* Variant: any final letter of a CSI sequence ends the call.             *)
CsiStepAnyFinal(b, a) ==
    IF IsLetter(b) THEN [s |-> "Csi", arg |-> a, ret |-> TRUE]
    ELSE IF IsDigit(b) \/ b = SEMI THEN Stay("Csi", Append(a, b))
    ELSE Stay("Csi", a)

CsiStep(b, a) ==
    IF b = CH_R THEN [s |-> "Csi", arg |-> a, ret |-> TRUE]
    ELSE IF IsLetter(b) THEN Stay("Norm", a)
    ELSE IF IsDigit(b) \/ b = SEMI THEN Stay("Csi", Append(a, b))
    ELSE Stay("Csi", a)

(* Variant: digits and ';' of an OSC payload reach the accumulator.       *)
OscStepLeaky(b, a) ==
    IF b = BEL THEN Stay("Norm", a)
    ELSE IF IsDigit(b) \/ b = SEMI THEN Stay("Osc", Append(a, b))
    ELSE Stay("Osc", a)

OscStep(b, a) == IF b = BEL THEN Stay("Norm", a) ELSE Stay("Osc", a)

Step(st, b, a) ==
    CASE st = "Norm" -> NormStep(b, a)
      [] st = "Esc"  -> EscStep(b, a)
      [] st = "Csi"  -> CsiStep(b, a)
      [] st = "Osc"  -> OscStep(b, a)

(* ------------------------------ inputs -------------------------------- *)
(* Bytes of the runs put in front of a reply: the bytes the parser tells  *)
(* apart outside a CSI body, with a letter and a digit for the rest.      *)
Alphabet == {ESC, LBRACKET, RBRACKET, CH_R, CH_0 + 7, BEL}

RECURSIVE SeqsUpTo(_, _)
SeqsUpTo(S, n) ==
    IF n = 0 THEN {<<>>}
    ELSE LET shorter == SeqsUpTo(S, n - 1)
         IN  shorter \cup {Append(q, b) : q \in {r \in shorter : Len(r) = n - 1}, b \in S}

Prefixes == SeqsUpTo(Alphabet, MaxPrefix)

(* Numbers a terminal reports, and the texts of a field of the reply.     *)
Nums == {0, 1, 12, 34, U16_MAX}

FieldTexts == {Dec(n) : n \in Nums} \cup {<<>>, Dec(U16_MAX + 1), <<CH_0, CH_0, CH_0 + 7>>}

Csi(body, final) == <<ESC, LBRACKET>> \o body \o final

Report(row, col) == Csi(row \o <<SEMI>> \o col, <<CH_R>>)

Title == <<CH_0, SEMI, 116, 105, 116, 108, 101>>

OscTitle == <<ESC, RBRACKET>> \o Title \o <<BEL>>

Scripts ==
    {<<>>}
    \cup {Report(f, g) : f, g \in FieldTexts}
    \cup {Csi(f, <<CH_R>>) : f \in FieldTexts}
    \cup { Csi(Dec(7) \o <<SEMI>> \o Dec(3), <<>>),
           Csi(Dec(2), <<CH_J>>),
           Csi(Dec(12) \o <<SEMI>> \o Dec(34) \o <<SEMI>> \o Dec(5), <<CH_R>>),
           Csi(<<63>> \o Dec(1) \o <<SP>> \o Dec(2) \o <<SEMI>> \o Dec(3), <<CH_R>>),
           Report(Dec(70000), Dec(34)),
           Report(Dec(12), Dec(70000)),
           OscTitle,
           <<ESC, RBRACKET>> \o Title }

Suffixes == {<<>>, Report(Dec(5), Dec(5))}

(* What the source delivers after a run of bytes of `front`: bytes,       *)
(* possibly a failing read with whatever would have followed it, then the *)
(* end of the stream; or bytes and then nothing, the stream staying open. *)
Delivers(q, front) ==
    \/ \E p \in front, sc \in Scripts, f \in {<<>>, <<READ_ERR>>}, sf \in Suffixes :
          q = p \o sc \o f \o sf
    \/ \E p \in front, sc \in Scripts :
          q = p \o sc \o <<PENDING>>

(* The runs of bytes in front of the streams on which the termination of  *)
(* the call is checked: the bytes that move the parser out of Normal.     *)
LivePrefixes == SeqsUpTo({ESC, LBRACKET, RBRACKET}, MaxLivePrefix)

(* ------------------------------ actions ------------------------------- *)
NoCmd == [op |-> "none", a |-> 0, b |-> 0]

(* No movement command has been made yet. *)
NoCommand ==
    /\ cmd = NoCmd
    /\ origin = "none"
    /\ out = <<>>
    /\ fpc = "new"

(* The entry of cursor_pos, whatever the source holds.                    *)
Entry ==
    /\ pc = "get_tty"
    /\ held = FALSE
    /\ sink = <<>>
    /\ consumed = <<>>
    /\ s = "Norm"
    /\ arg = <<>>
    /\ result = NoResult
    /\ exit = "none"
    /\ raised = NoError
    /\ NoCommand

Init == Entry /\ Delivers(stdin, Prefixes)

LiveInit == Entry /\ Delivers(stdin, LivePrefixes)

(* Variant: the handle outlives the call.                                 *)
ReturnKeepsHandle(r, site) ==
    /\ pc' = "done"
    /\ held' = held
    /\ result' = r
    /\ exit' = site

(* Leaving the function: the value returned, the return site taken, and   *)
(* the drop of the handle at the end of its scope.                        *)
Return(r, site) ==
    /\ pc' = "done"
    /\ held' = FALSE
    /\ result' = r
    /\ exit' = site

(* Variant: the error is rebuilt with the generic kind.                   *)
FromIoRewrapped(e) == [kind |-> "Other", msg |-> e.msg]

(* `?` on an io::Result inside a function returning io::Result: the error *)
(* goes through From<io::Error> for io::Error.                            *)
FromIo(e) == e

Fail(e, site) ==
    /\ raised' = e
    /\ Return(Err(FromIo(e)), site)

(* let mut stdin = tty::get_tty()?; *)
GetTtyOk ==
    /\ pc = "get_tty"
    /\ pc' = "write"
    /\ held' = TRUE
    /\ UNCHANGED <<sink, stdin, consumed, s, arg, result, exit, raised>>
    /\ UNCHANGED fmtVars

GetTtyErr ==
    /\ pc = "get_tty"
    /\ \E e \in OsErrors : Fail(e, "get_tty")
    /\ UNCHANGED <<sink, stdin, consumed, s, arg>>
    /\ UNCHANGED fmtVars

(* write!(self, "\x1B[6n")?; *)
WriteOk ==
    /\ pc = "write"
    /\ pc' = "flush"
    /\ sink' = sink \o Query
    /\ UNCHANGED <<held, stdin, consumed, s, arg, result, exit, raised>>
    /\ UNCHANGED fmtVars

WriteErr ==
    /\ pc = "write"
    /\ \E k \in 0..(Len(Query) - 1) : sink' = sink \o SubSeq(Query, 1, k)
    /\ \E e \in SinkErrors : Fail(e, "write")
    /\ UNCHANGED <<stdin, consumed, s, arg>>
    /\ UNCHANGED fmtVars

(* Variant: the query is left in the sink's buffer.                       *)
FlushOkSkipped ==
    /\ pc = "flush"
    /\ pc' = "read"
    /\ arg' = <<>>
    /\ s' = "Norm"
    /\ UNCHANGED <<held, sink, stdin, consumed, result, exit, raised>>
    /\ UNCHANGED fmtVars

(* self.flush()?; let mut arg = String::new(); let mut s = Norm; *)
FlushOk ==
    /\ pc = "flush"
    /\ pc' = "read"
    /\ sink' = Append(sink, FLUSH)
    /\ arg' = <<>>
    /\ s' = "Norm"
    /\ UNCHANGED <<held, stdin, consumed, result, exit, raised>>
    /\ UNCHANGED fmtVars

FlushErr ==
    /\ pc = "flush"
    /\ \E e \in SinkErrors : Fail(e, "flush")
    /\ UNCHANGED <<sink, stdin, consumed, s, arg>>
    /\ UNCHANGED fmtVars

(* One iteration of `for b_res in stdin.bytes()` with b_res = Ok(b). *)
ReadByte ==
    /\ pc = "read"
    /\ stdin # <<>>
    /\ Head(stdin) \notin {READ_ERR, PENDING}
    /\ LET b == Head(stdin)
           n == Step(s, b, arg)
       IN  /\ stdin' = Tail(stdin)
           /\ consumed' = Append(consumed, b)
           /\ s' = n.s
           /\ arg' = n.arg
           /\ IF n.ret
              THEN LET p == ParsePos(arg) IN Return(Ok(p.x, p.y), "ok")
              ELSE UNCHANGED <<pc, held, result, exit>>
    /\ UNCHANGED <<sink, raised>>
    /\ UNCHANGED fmtVars

(* Variant: at the end of the stream a CSI body read so far is parsed.    *)
ReadEofPartial ==
    /\ pc = "read"
    /\ stdin = <<>>
    /\ IF s = "Csi"
       THEN LET p == ParsePos(arg) IN Return(Ok(p.x, p.y), "eof")
       ELSE Return(Err(NotFound), "eof")
    /\ UNCHANGED <<sink, stdin, consumed, s, arg, raised>>
    /\ UNCHANGED fmtVars

(* The iterator ends: Err(Error::new(ErrorKind::Other, "...not found")). *)
ReadEof ==
    /\ pc = "read"
    /\ stdin = <<>>
    /\ Return(Err(NotFound), "eof")
    /\ UNCHANGED <<sink, stdin, consumed, s, arg, raised>>
    /\ UNCHANGED fmtVars

(* Variant: a failing read ends the loop like the end of the stream.      *)
ReadErrAsNotFound ==
    /\ pc = "read"
    /\ stdin # <<>>
    /\ Head(stdin) = READ_ERR
    /\ stdin' = Tail(stdin)
    /\ \E e \in OsErrors : raised' = e
    /\ Return(Err(NotFound), "read")
    /\ UNCHANGED <<sink, consumed, s, arg>>
    /\ UNCHANGED fmtVars

(* let b = b_res?; with b_res = Err(e). *)
ReadErr ==
    /\ pc = "read"
    /\ stdin # <<>>
    /\ Head(stdin) = READ_ERR
    /\ stdin' = Tail(stdin)
    /\ \E e \in OsErrors : Fail(e, "read")
    /\ UNCHANGED <<sink, consumed, s, arg>>
    /\ UNCHANGED fmtVars

Next ==
    \/ GetTtyOk
    \/ GetTtyErr
    \/ WriteOk
    \/ WriteErr
    \/ FlushOk
    \/ FlushErr
    \/ ReadByte
    \/ ReadEof
    \/ ReadErr

Spec == Init /\ [][Next]_vars

(* The call is a sequential loop on the calling thread: a step that can   *)
(* be taken is taken.                                                     *)
FairSpec == LiveInit /\ [][Next]_vars /\ WF_vars(Next)

(* ----------------------- the movement commands ------------------------ *)
GotoCmd(x, y) == [op |-> "Goto", a |-> x, b |-> y]

MoveCmd(op, n) == [op |-> op, a |-> n, b |-> 0]

(* csi!(..): the text after the introducer ESC '['.                       *)
CsiMacro(body) == <<ESC, LBRACKET>> \o body

(* Variant: the fields rendered in the order they are declared.           *)
FmtGotoColumnFirst(x, y) == CsiMacro(Dec(x) \o <<SEMI>> \o Dec(y) \o <<CH_H>>)

(* write!(f, csi!("{};{}H"), self.1, self.0) *)
FmtGoto(x, y) == CsiMacro(Dec(y) \o <<SEMI>> \o Dec(x) \o <<CH_H>>)

(* Variant: Left with the final byte of Right.                            *)
FmtLeftAsRight(n) == CsiMacro(Dec(n) \o <<CH_C>>)

FmtLeft(n) == CsiMacro(Dec(n) \o <<CH_D>>)

FmtRight(n) == CsiMacro(Dec(n) \o <<CH_C>>)

FmtUp(n) == CsiMacro(Dec(n) \o <<CH_A>>)

FmtDown(n) == CsiMacro(Dec(n) \o <<CH_B>>)

(* Values of the u16 fields of a command.                                 *)
FmtNums == {0, 1, 9, 10, 34, 255, U16_MAX}

Commands ==
    {GotoCmd(x, y) : x, y \in FmtNums}
    \cup {MoveCmd(op, n) : op \in {"Left", "Right", "Up", "Down"}, n \in FmtNums}

(* Goto(x, y), Left(n), ... written by the caller. *)
NewCommand ==
    /\ fpc = "new"
    /\ pc = "get_tty"
    /\ \E c \in Commands : cmd' = c
    /\ origin' = "literal"
    /\ fpc' = "built"
    /\ UNCHANGED out
    /\ UNCHANGED posVars

(* Goto::default() *)
GotoDefault ==
    /\ fpc = "new"
    /\ pc = "get_tty"
    /\ cmd' = GotoCmd(1, 1)
    /\ origin' = "default"
    /\ fpc' = "built"
    /\ UNCHANGED out
    /\ UNCHANGED posVars

(* Goto(x, y) of the pair a call of cursor_pos returned. *)
GotoOfResult ==
    /\ fpc = "new"
    /\ pc = "done"
    /\ result.tag = "ok"
    /\ cmd' = GotoCmd(result.x, result.y)
    /\ origin' = "result"
    /\ fpc' = "built"
    /\ UNCHANGED out
    /\ UNCHANGED posVars

Rendered(text) ==
    /\ out' = text
    /\ fpc' = "rendered"
    /\ UNCHANGED <<cmd, origin>>
    /\ UNCHANGED posVars

(* Goto::fmt where the assertion holds or is compiled out (debug_assert!  *)
(* is empty in a build without debug assertions).                         *)
DisplayGoto ==
    /\ fpc = "built"
    /\ cmd.op = "Goto"
    /\ Rendered(FmtGoto(cmd.a, cmd.b))

(* Goto::fmt in a build with debug assertions: Goto(0, 0) panics.         *)
DisplayGotoAssert ==
    /\ fpc = "built"
    /\ cmd = GotoCmd(0, 0)
    /\ fpc' = "panicked"
    /\ UNCHANGED <<cmd, origin, out>>
    /\ UNCHANGED posVars

DisplayLeft ==
    /\ fpc = "built"
    /\ cmd.op = "Left"
    /\ Rendered(FmtLeft(cmd.a))

DisplayRight ==
    /\ fpc = "built"
    /\ cmd.op = "Right"
    /\ Rendered(FmtRight(cmd.a))

DisplayUp ==
    /\ fpc = "built"
    /\ cmd.op = "Up"
    /\ Rendered(FmtUp(cmd.a))

DisplayDown ==
    /\ fpc = "built"
    /\ cmd.op = "Down"
    /\ Rendered(FmtDown(cmd.a))

(* A command is made and rendered; cursor_pos is not called.              *)
FmtInit == Entry /\ stdin = <<>>

FmtNext ==
    \/ NewCommand
    \/ GotoDefault
    \/ DisplayGoto
    \/ DisplayGotoAssert
    \/ DisplayLeft
    \/ DisplayRight
    \/ DisplayUp
    \/ DisplayDown

FmtSpec == FmtInit /\ [][FmtNext]_vars

(* The terminal answers the query with the report of a cell (x, y), which *)
(* may be cut short or fail on the way; the caller renders Goto of the    *)
(* pair returned.                                                         *)
RoundTripNums == {1, 9, 10, 34, 255, U16_MAX}

(* A reply, whole or cut after k bytes, with or without a failing read.   *)
Cuts(r) == {SubSeq(r, 1, k) \o f : k \in 0..Len(r), f \in {<<>>, <<READ_ERR>>}}

RoundTripInputs ==
    UNION {Cuts(Report(Dec(y), Dec(x))) : x, y \in RoundTripNums}

RoundTripInit == Entry /\ stdin \in RoundTripInputs

RoundTripNext ==
    \/ Next
    \/ GotoOfResult
    \/ DisplayGoto

RoundTripSpec == RoundTripInit /\ [][RoundTripNext]_vars

TypeOK ==
    /\ pc \in {"get_tty", "write", "flush", "read", "done"}
    /\ held \in BOOLEAN
    /\ s \in {"Norm", "Esc", "Csi", "Osc"}
    /\ exit \in {"none", "ok", "eof", "get_tty", "write", "flush", "read"}
    /\ result.tag \in {"none", "ok", "err"}

(* ======================= properties of the call ======================= *)
Last(q) == q[Len(q)]

(* The call has returned on an 'R' read in the CSI body. *)
StoppedAtR == pc = "done" /\ consumed # <<>> /\ Last(consumed) = CH_R /\ s = "Csi"

(* The next byte of the source is an 'R' and the parser is in the CSI body. *)
AboutToReadR == pc = "read" /\ s = "Csi" /\ stdin # <<>> /\ Head(stdin) = CH_R

(* The read loop has been entered: the query was written and flushed. *)
Reading == Len(sink) > 0 /\ Last(sink) = FLUSH

(* A complete report ESC [ digits ; digits R at positions i..j of q. *)
ReportAt(q, i, j) ==
    /\ i + 5 <= j
    /\ q[i] = ESC
    /\ q[i + 1] = LBRACKET
    /\ q[j] = CH_R
    /\ \E k \in (i + 3)..(j - 2) :
          /\ q[k] = SEMI
          /\ \A m \in ((i + 2)..(j - 1)) \ {k} : IsDigit(q[m])

ContainsReport(q) == \E i, j \in 1..Len(q) : ReportAt(q, i, j)

(* Position of the '[' of the last ESC '[' pair of q, 0 if there is none. *)
LastIntroducer(q) ==
    LET at == {i \in 2..Len(q) : q[i - 1] = ESC /\ q[i] = LBRACKET}
    IN  IF at = {} THEN 0 ELSE CHOOSE i \in at : \A j \in at : j <= i

(* The digits and ';' of q[from..to], in order. *)
RECURSIVE ParamText(_, _, _)
ParamText(q, from, to) ==
    IF from > to THEN <<>>
    ELSE IF IsDigit(q[from]) \/ q[from] = SEMI
         THEN <<q[from]>> \o ParamText(q, from + 1, to)
         ELSE ParamText(q, from + 1, to)

(* C1: when the 'R' read in the CSI body closes an accumulator "r;c" of   *)
(* two decimal numbers, the call returns at once with the pair (c, r):    *)
(* column (second wire field) first, row (first wire field) second.       *)
C1_ColumnRowOrder ==
    [][\A r, c \in Nums :
          (AboutToReadR /\ arg = Dec(r) \o <<SEMI>> \o Dec(c))
              => (pc' = "done" /\ result' = Ok(c, r))]_vars

C1_Witness ==
    /\ StoppedAtR
    /\ arg = Dec(12) \o <<SEMI>> \o Dec(34)
    /\ result = Ok(34, 12)

(* C2: a stream without read errors that contains a complete report      *)
(* ESC [ digits ; digits R never ends in the not-found failure, whatever  *)
(* precedes the report.                                                   *)
C2_ReportAlwaysFound ==
    (pc = "done" /\ exit = "eof") => ~ContainsReport(consumed)

(* C3: when the stream ends and no 'R' was read in the CSI body, the call *)
(* returns the "Cursor position not found" failure; a position is only    *)
(* ever returned on such an 'R', whatever the accumulator holds.          *)
C3_EofIsNotFound ==
    /\ (pc = "done" /\ Reading /\ stdin = <<>> /\ raised = NoError /\ ~StoppedAtR)
           => result = Err([kind |-> "Other", msg |-> "Cursor position not found"])
    /\ result.tag = "ok" => StoppedAtR

C3_Witness ==
    /\ pc = "done"
    /\ consumed = Csi(Dec(7) \o <<SEMI>> \o Dec(3), <<>>)
    /\ arg = Dec(7) \o <<SEMI>> \o Dec(3)
    /\ stdin = <<>>
    /\ raised = NoError
    /\ result.tag = "err"

(* C4: the text parsed on the terminating 'R' is exactly the digits and   *)
(* ';' received after the most recent ESC '[' before that 'R'; no         *)
(* parameter byte of an earlier sequence, terminated or abandoned, is in  *)
(* it.                                                                    *)
C4_OnlyLatestSequence ==
    StoppedAtR =>
        LET i == LastIntroducer(consumed)
        IN  i > 0 /\ arg = ParamText(consumed, i + 1, Len(consumed) - 1)

(* C5: on the 'R' read in the CSI body a missing or empty field is        *)
(* reported as 0, the other field is parsed as usual and the call         *)
(* succeeds.                                                              *)
C5_LenientFields ==
    [][AboutToReadR =>
          /\ arg = <<>> => (pc' = "done" /\ result' = Ok(0, 0))
          /\ arg = <<SEMI>> => (pc' = "done" /\ result' = Ok(0, 0))
          /\ \A n \in Nums :
                /\ arg = <<SEMI>> \o Dec(n) => (pc' = "done" /\ result' = Ok(n, 0))
                /\ arg = Dec(n) => (pc' = "done" /\ result' = Ok(0, n))
                /\ arg = Dec(n) \o <<SEMI>> => (pc' = "done" /\ result' = Ok(0, n))]_vars

C5_Witness ==
    /\ StoppedAtR
    /\ Len(arg) = 3
    /\ arg = <<SEMI>> \o Dec(34)
    /\ result = Ok(34, 0)

(* C6: a position returned by the call is (1,1)-based: both coordinates   *)
(* are at least 1.                                                        *)
C6_OneBased ==
    result.tag = "ok" => (result.x >= 1 /\ result.y >= 1)

(* C7: in the OSC body every byte but BEL leaves the state and the        *)
(* accumulator as they are and returns nothing, whatever the byte; and a  *)
(* stream that is only ESC ] 0;title BEL ends in the not-found failure.   *)
C7_OscInert ==
    /\ [][(pc = "read" /\ s = "Osc" /\ stdin # <<>> /\ Head(stdin) \notin {BEL, READ_ERR})
             => (s' = "Osc" /\ arg' = arg /\ pc' = "read" /\ result' = result)]_vars
    /\ [](( /\ pc = "done"
            /\ consumed = <<27, 93, 48, 59, 116, 105, 116, 108, 101, 7>>
            /\ stdin = <<>>
            /\ raised = NoError)
             => result = Err([kind |-> "Other", msg |-> "Cursor position not found"]))

C7_Witness ==
    /\ pc = "done"
    /\ s = "Osc"
    /\ Len(consumed) >= 6
    /\ \E i \in 3..Len(consumed) : consumed[i] = CH_R
    /\ \E i \in 3..Len(consumed) : IsDigit(consumed[i])
    /\ result = Err(NotFound)
    /\ raised = NoError

(* C8: before the first byte is read the sink has received exactly        *)
(* 1B 5B 36 6E and then a flush, and a call that reads receives nothing   *)
(* else in its sink, however much it reads.                               *)
C8_QueryOnceThenFlush ==
    (pc = "read" \/ consumed # <<>> \/ exit \in {"ok", "eof", "read"})
        => sink = <<27, 91, 54, 110, FLUSH>>

C8_Witness ==
    /\ pc = "done"
    /\ exit = "ok"
    /\ Len(consumed) >= 10
    /\ sink = <<27, 91, 54, 110, FLUSH>>

(* C9: no call that ends by an I/O error (handle, write, flush, read)     *)
(* returns the error value that a call ending by end-of-stream returns.   *)
C9_NotFoundDistinct ==
    exit \in {"get_tty", "write", "flush", "read"}
        => [kind |-> result.kind, msg |-> result.msg] # NotFound

(* C10: an I/O error ends the call with that very error and nothing       *)
(* after it: a failed handle leaves the sink untouched, a failed write or *)
(* flush leaves the source unread and the query unflushed, a failed read  *)
(* returns no position, and nothing is read or written once the call has  *)
(* returned.                                                              *)
C10_ErrorsAbort ==
    /\ [](raised # NoError =>
            /\ pc = "done"
            /\ result = [tag |-> "err", x |-> 0, y |-> 0,
                         kind |-> raised.kind, msg |-> raised.msg])
    /\ [](exit = "get_tty" => (sink = <<>> /\ consumed = <<>>))
    /\ [](exit \in {"write", "flush"} =>
            (consumed = <<>> /\ \A i \in 1..Len(sink) : sink[i] # FLUSH))
    /\ [][pc = "done" => UNCHANGED <<sink, stdin, consumed, result>>]_vars

C10_Witness ==
    /\ exit = "read"
    /\ raised = [kind |-> "BrokenPipe", msg |-> "broken pipe"]
    /\ result.kind = "BrokenPipe"
    /\ s = "Csi"
    /\ arg = Dec(7) \o <<SEMI>> \o Dec(3)
    /\ stdin = Report(Dec(5), Dec(5))

(* C11: a read that fails before an 'R' was read in the CSI body makes    *)
(* the call fail with the "position not found" condition, the same as     *)
(* the end of the stream, and no position is returned.                    *)
C11_ReadErrorIsNotFound ==
    exit = "read" => result = Err(NotFound)

(* C11, amended: such a read makes the call fail with the error of the    *)
(* read itself, which is not the not-found condition; no position is      *)
(* returned.                                                              *)
C11_ReadErrorPropagates ==
    exit = "read" =>
        /\ result.tag = "err"
        /\ [kind |-> result.kind, msg |-> result.msg] = raised
        /\ [kind |-> result.kind, msg |-> result.msg] # NotFound

C11_Witness ==
    /\ exit = "read"
    /\ s = "Csi"
    /\ arg = Dec(7) \o <<SEMI>> \o Dec(3)
    /\ result.msg = "device failure"

(* C12: the handle acquired at the start of the call is held while the    *)
(* call writes, flushes and reads, and is no longer held in any state in  *)
(* which the call has returned, whatever the exit.                        *)
C12_HandleReleased ==
    /\ pc = "done" => ~held
    /\ pc \in {"write", "flush", "read"} => held
    /\ exit # "none" => pc = "done"

C12_Witness ==
    /\ pc = "done"
    /\ exit = "flush"
    /\ ~held
    /\ sink = Query

(* The source will deliver the rest of the stream and close or fail. *)
WillEnd == \A i \in 1..Len(stdin) : stdin[i] # PENDING

(* The read in progress gets nothing: no byte, no end, no error. *)
Blocked == pc = "read" /\ stdin # <<>> /\ Head(stdin) = PENDING

(* C16: once reading, the call returns only on an 'R' read in the CSI     *)
(* body (position), on the end of the stream (not found) or on a failed   *)
(* read (that error); while the source delivers none of them the call     *)
(* stays in its read; every step of the loop takes exactly the next byte  *)
(* of the stream, and on a stream that ends the call returns.             *)
C16_NoTimeout ==
    /\ [][(pc = "read" /\ pc' = "done") =>
             \/ (AboutToReadR /\ exit' = "ok")
             \/ (stdin = <<>> /\ exit' = "eof")
             \/ (stdin # <<>> /\ Head(stdin) = READ_ERR /\ exit' = "read")]_vars
    /\ [][Blocked => Blocked']_vars
    /\ [][(pc = "read" /\ consumed' # consumed) =>
             (consumed' = Append(consumed, Head(stdin)) /\ stdin' = Tail(stdin))]_vars
    /\ (WillEnd ~> pc = "done")

C16_Witness ==
    /\ Blocked
    /\ s = "Csi"
    /\ arg = Dec(7) \o <<SEMI>> \o Dec(3)
    /\ Len(consumed) = 5

(* The parser fed the bytes of q from its start: its state, its           *)
(* accumulator and whether the last byte returned a position.             *)
RECURSIVE Run(_)
Run(q) ==
    IF q = <<>> THEN Stay("Norm", <<>>)
    ELSE LET before == Run(SubSeq(q, 1, Len(q) - 1))
         IN  Step(before.s, Last(q), before.arg)

(* C17: the call returns on the first 'R' read in the CSI body and reads  *)
(* nothing after it; the position is that of the bytes read up to that    *)
(* 'R', whatever follows it in the stream.                                *)
C17_FirstReportWins ==
    /\ [][AboutToReadR => (pc' = "done" /\ exit' = "ok" /\ stdin' = Tail(stdin))]_vars
    /\ [][pc = "done" => UNCHANGED <<stdin, consumed, result>>]_vars
    /\ [](exit = "ok" =>
            LET r == Run(consumed)
                p == ParsePos(r.arg)
            IN  r.ret /\ result = Ok(p.x, p.y))

C17_Witness ==
    /\ exit = "ok"
    /\ consumed = Report(Dec(12), Dec(34))
    /\ stdin = Report(Dec(5), Dec(5))
    /\ result = Ok(34, 12)

(* C18: the accumulator holds only digits and ';'; it is empty when the   *)
(* parser enters the CSI body; it grows only in the CSI body, by the byte *)
(* read; a byte read in Normal, in SawEscape (other than '[') or in the   *)
(* OSC body leaves it as it is.                                           *)
C18_Accumulator ==
    /\ [](\A i \in 1..Len(arg) : IsDigit(arg[i]) \/ arg[i] = SEMI)
    /\ [][(s # "Csi" /\ s' = "Csi") => arg' = <<>>]_vars
    /\ [][(arg' # arg /\ arg' # <<>>) =>
             (s = "Csi" /\ pc = "read" /\ arg' = Append(arg, Head(stdin)))]_vars
    /\ [][(pc = "read" /\ stdin # <<>> /\
              (s \in {"Norm", "Osc"} \/ (s = "Esc" /\ Head(stdin) # LBRACKET)))
              => arg' = arg]_vars

C18_Witness ==
    /\ pc = "read"
    /\ s = "Csi"
    /\ arg = <<>>
    /\ consumed = Csi(Dec(2), <<CH_J>>) \o <<ESC, LBRACKET>>

(* C20: on the 'R' read in the CSI body a field whose digits make a       *)
(* value above 65535 is reported as 0, neither wrapped nor saturated, the *)
(* other field is parsed as usual and the call succeeds.                  *)
C20_OverflowIsZero ==
    [][AboutToReadR =>
          \A big \in {U16_MAX + 1, 70000} :
             /\ \A n \in Nums :
                   /\ arg = Dec(big) \o <<SEMI>> \o Dec(n)
                         => (pc' = "done" /\ result' = Ok(n, 0))
                   /\ arg = Dec(n) \o <<SEMI>> \o Dec(big)
                         => (pc' = "done" /\ result' = Ok(0, n))
             /\ arg = Dec(big) \o <<SEMI>> \o Dec(big)
                   => (pc' = "done" /\ result' = Ok(0, 0))]_vars

C20_Witness ==
    /\ StoppedAtR
    /\ arg = <<55, 48, 48, 48, 48, 59, 51, 52>>
    /\ result = Ok(34, 0)

(* The text between the introducer and the final byte of a rendering. *)
Params(text) == SubSeq(text, 3, Len(text) - 1)

(* C13: Goto(x, y), x and y not both zero, renders as                     *)
(* ESC '[' dec(y) ';' dec(x) 'H', the row (second field) first; the       *)
(* default Goto is Goto(1, 1) and renders as ESC[1;1H.                    *)
C13_GotoRowFirst ==
    /\ []((fpc = "rendered" /\ cmd.op = "Goto" /\ ~(cmd.a = 0 /\ cmd.b = 0)) =>
            /\ out = <<27, 91>> \o Dec(cmd.b) \o <<59>> \o Dec(cmd.a) \o <<72>>
            /\ Len(Split(Params(out))) = 2
            /\ ParseU16(Split(Params(out))[1]) = cmd.b
            /\ ParseU16(Split(Params(out))[2]) = cmd.a)
    /\ [][(fpc = "built" /\ cmd.op = "Goto" /\ ~(cmd.a = 0 /\ cmd.b = 0))
             => fpc' = "rendered"]_vars
    /\ [](origin = "default" =>
            /\ cmd = [op |-> "Goto", a |-> 1, b |-> 1]
            /\ fpc = "rendered" => out = <<27, 91, 49, 59, 49, 72>>)

C13_Witness ==
    /\ fpc = "rendered"
    /\ cmd = GotoCmd(34, 9)
    /\ out = <<27, 91, 57, 59, 51, 52, 72>>

(* C14: Up(n), Down(n), Right(n), Left(n) render as ESC '[' dec(n) and    *)
(* the final byte 'A', 'B', 'C', 'D', nothing else; the rendering always  *)
(* yields its text and touches neither the sink nor the source.           *)
C14_MoveFinalBytes ==
    /\ []((fpc = "rendered" /\ cmd.op # "Goto") =>
            /\ out = <<27, 91>> \o Dec(cmd.a) \o
                     << CASE cmd.op = "Up" -> 65
                          [] cmd.op = "Down" -> 66
                          [] cmd.op = "Right" -> 67
                          [] cmd.op = "Left" -> 68 >>
            /\ ParseU16(Params(out)) = cmd.a
            /\ (Len(Params(out)) > 1 => Params(out)[1] # 48))
    /\ [][(fpc = "built" /\ cmd.op # "Goto") =>
             (fpc' = "rendered" /\ sink' = sink /\ stdin' = stdin /\ pc' = pc)]_vars

C14_Witness ==
    /\ fpc = "rendered"
    /\ cmd = MoveCmd("Left", 255)
    /\ out = <<27, 91, 50, 53, 53, 68>>

(* C15: rendering Goto(0, 0) never yields ESC[0;0H: the assertion stops   *)
(* it.                                                                    *)
C15_ZeroOriginGuarded ==
    cmd = [op |-> "Goto", a |-> 0, b |-> 0] => out # <<27, 91, 48, 59, 48, 72>>

(* C19: the report ESC '[' dec(y) ';' dec(x) 'R' of a cell, x and y at    *)
(* least 1, makes cursor_pos return (x, y), and Goto of that pair, in the *)
(* order returned, renders the parameter text of the report.              *)
C19_RoundTrip ==
    /\ exit = "ok" =>
          \E x, y \in RoundTripNums :
             /\ consumed = <<27, 91>> \o Dec(y) \o <<59>> \o Dec(x) \o <<82>>
             /\ result = Ok(x, y)
    /\ (origin = "result" /\ fpc = "rendered") =>
          /\ cmd = GotoCmd(result.x, result.y)
          /\ out = <<27, 91>> \o SubSeq(consumed, 3, Len(consumed) - 1) \o <<72>>

C19_Witness ==
    /\ origin = "result"
    /\ fpc = "rendered"
    /\ result = Ok(34, 9)
    /\ consumed = <<27, 91, 57, 59, 51, 52, 82>>
    /\ out = <<27, 91, 57, 59, 51, 52, 72>>

====
